---- MODULE Spec2Model ----
(***************************************************************************)
(* Model of src/app.py: the validation -> filter -> alert -> aggregation   *)
(* pipeline of the programmatic dashboard, one script run at a time.       *)
(*                                                                         *)
(* Numbers.  Decimal metrics (Revenue, Page_RPM, Fill_Rate, eCPM, CTR) are *)
(* held as integers in thousandths (79.996 is 79996); Impresiones is a     *)
(* plain count.  A value rounded by .round(2) is held in hundredths        *)
(* (80.00 is 8000).  Unrounded quotients are held as exact fractions       *)
(* [num, den].  The code rounds binary doubles: where the exact decimal    *)
(* lies halfway between two results, the double may lie on either side, so *)
(* rounding yields the set of both neighbours there and one value          *)
(* everywhere else.                                                        *)
(*                                                                         *)
(* Dates.  A date cell as read from the CSV is the text 'YYYY-MM-DD', held *)
(* as the triple <<y, m, d>>; a parsed timestamp is the 1-tuple <<n>> with *)
(* n the day number counted from 2024-01-01.  A calendar date (a widget    *)
(* bound, the result of .dt.date) is the day number n itself.              *)
(***************************************************************************)
EXTENDS Integers, Sequences, FiniteSets, TLC

VARIABLES
    pc,               \* position of the script run
    uploaded_file,    \* [present, readable, table]: the file_uploader widget
    use_sample,       \* the "Usar datos de ejemplo" checkbox
    validation,       \* [called, ok, message, before, after] of validate_data
    df,               \* the loaded dataset
    date_range,       \* the date_input widget: a sequence of 0..2 dates
    selected_sources, \* the multiselect widget
    filtered_df,      \* df narrowed by the filters
    source_metrics,   \* show_alerts: the per-source aggregation it iterates
    alerts,           \* show_alerts: the list of (type, source, value)
    metrics,          \* total_revenue, total_impressions, avg_page_rpm
    detailed_metrics, \* the per-source table of the last section
    page              \* the elements rendered so far, in order

vars == <<pc, uploaded_file, use_sample, validation, df, date_range,
          selected_sources, filtered_df, source_metrics, alerts, metrics,
          detailed_metrics, page>>

-----------------------------------------------------------------------------
(* Bounds of the model *)

MaxRows == 3
MaxMissing == 2
MaxNonNumeric == 2
SampleDays == 1

(* Thresholds of show_alerts *)

FillRateThreshold == 80
ECpmThreshold == 1

-----------------------------------------------------------------------------
(* Generic helpers *)

Range(s) == {s[i] : i \in 1..Len(s)}

Reverse(s) == [i \in 1..Len(s) |-> s[Len(s) + 1 - i]]

RECURSIVE SumSeq(_)
SumSeq(s) == IF s = <<>> THEN 0 ELSE s[1] + SumSeq(Tail(s))

Column(rows, col) == [i \in 1..Len(rows) |-> rows[i][col]]

SeqsUpTo(S, n) == UNION {[1..k -> S] : k \in 1..n}

-----------------------------------------------------------------------------
(* validate_data *)

required_columns ==
    <<"Fecha", "Fuente", "Revenue", "Impresiones", "Page_RPM", "Fill_Rate",
      "eCPM", "CTR">>

numeric_columns ==
    <<"Revenue", "Impresiones", "Page_RPM", "Fill_Rate", "eCPM", "CTR">>

\* days before the first of month m, in 2024
DaysBefore(m) == SumSeq(SubSeq(<<31, 29, 31, 30, 31, 30, 31, 31, 30, 31, 30, 31>>, 1, m - 1))

DaysIn(m) == <<31, 29, 31, 30, 31, 30, 31, 31, 30, 31, 30, 31>>[m]

\* can pd.to_datetime parse the cell
Parseable(cell) ==
    \/ Len(cell) = 1
    \/ /\ Len(cell) = 3
       /\ cell[1] = 2024
       /\ cell[2] \in 1..12
       /\ cell[3] \in 1..DaysIn(cell[2])

\* pd.to_datetime of one cell: text to timestamp; a timestamp stays
to_datetime(cell) ==
    IF Len(cell) = 1 THEN cell
    ELSE <<DaysBefore(cell[2]) + cell[3] - 1>>

\* .dt.date of a timestamp
dt_date(ts) == ts[1]

is_numeric_dtype(dtype) == dtype \in {"int64", "float64"}

\* df['Fecha'] = pd.to_datetime(df['Fecha']): the column is replaced in df
AssignFecha(t) ==
    [t EXCEPT !.dtypes = [@ EXCEPT !["Fecha"] = "datetime64[ns]"],
              !.rows = [i \in 1..Len(t.rows) |->
                          [t.rows[i] EXCEPT !["Fecha"] = to_datetime(@)]]]

\* a validator that reports the first missing column only
missing_columns_first_only(t) ==
    LET all == SelectSeq(required_columns, LAMBDA col : col \notin Range(t.columns))
    IN  IF all = <<>> THEN <<>> ELSE <<Head(all)>>

missing_columns(t) ==
    SelectSeq(required_columns, LAMBDA col : col \notin Range(t.columns))

\* a scan that walks the columns in file order instead of the fixed list
NonNumericFileOrder(t) ==
    SelectSeq(t.columns, LAMBDA col :
        col \in Range(numeric_columns) /\ ~is_numeric_dtype(t.dtypes[col]))

\* the numeric columns that fail the dtype test, in scan order
NonNumeric(t) ==
    SelectSeq(numeric_columns, LAMBDA col : ~is_numeric_dtype(t.dtypes[col]))

\* validate_data(df): the result and the table as the call leaves it
validate_data(t) ==
    IF missing_columns(t) # <<>> THEN
        [ok |-> FALSE,
         message |-> [text |-> "Faltan las siguientes columnas", cols |-> missing_columns(t)],
         after |-> t]
    ELSE IF \E i \in 1..Len(t.rows) : ~Parseable(t.rows[i]["Fecha"]) THEN
        [ok |-> FALSE,
         message |-> [text |-> "Error en formato de fechas. Use YYYY-MM-DD", cols |-> <<>>],
         after |-> t]
    ELSE IF NonNumeric(AssignFecha(t)) # <<>> THEN
        [ok |-> FALSE,
         message |-> [text |-> "La columna debe ser numerica",
                      cols |-> <<Head(NonNumeric(AssignFecha(t)))>>],
         after |-> AssignFecha(t)]
    ELSE
        [ok |-> TRUE,
         message |-> [text |-> "Datos validos", cols |-> <<>>],
         after |-> AssignFecha(t)]

-----------------------------------------------------------------------------
(* The inputs: tables an uploaded CSV can parse to *)

\* every source name of the model, in the order sorted() and groupby give
SourceOrder == <<"Google_AdEx", "Prebid_Criteo", "TAM_Amazon">>

Row(fecha, fuente, revenue, impresiones, page_rpm, fill_rate, ecpm, ctr) ==
    [Fecha |-> fecha, Fuente |-> fuente, Revenue |-> revenue,
     Impresiones |-> impresiones, Page_RPM |-> page_rpm,
     Fill_Rate |-> fill_rate, eCPM |-> ecpm, CTR |-> ctr]

\* rows of an uploaded file; the validator checks no range and no consistency
\* of the derived columns, so zero impressions, sub-cent revenue and values
\* at and next to the thresholds are all rows the pipeline accepts
Catalog ==
    { Row(<<2024, 1, 1>>, "Google_AdEx",   100000, 1000, 100000, 70000,  500, 1000),
      Row(<<2024, 1, 3>>, "Google_AdEx",    20000,  100, 250000, 79996,  996,  500),
      Row(<<2024, 1, 1>>, "Prebid_Criteo",  50000, 2000,  25000, 90000,  250, 2000),
      Row(<<2024, 1, 3>>, "Prebid_Criteo",      4,    0,      0, 80000, 1000,    0),
      Row(<<2024, 1, 2>>, "Prebid_Criteo",   1006,  500,   2012, 79990, 1004,  250),
      Row(<<2024, 1, 2>>, "TAM_Amazon",      2504, 3000,   1500, 79996,  996,  100) }

FixedRows ==
    << Row(<<2024, 1, 1>>, "Google_AdEx",   100000, 1000, 100000, 70000, 500, 1000),
       Row(<<2024, 1, 2>>, "Prebid_Criteo",  50000, 2000,  25000, 90000, 250, 2000) >>

\* the same rows with a date no calendar has
BadDateRows == [FixedRows EXCEPT ![2]["Fecha"] = <<2024, 13, 1>>]

\* the dtypes pd.read_csv infers for well-formed columns
DefaultDtypes ==
    [Fecha |-> "object", Fuente |-> "object", Revenue |-> "float64",
     Impresiones |-> "int64", Page_RPM |-> "float64", Fill_Rate |-> "float64",
     eCPM |-> "float64", CTR |-> "float64"]

\* a parsed CSV: the columns in file order, a dtype per column, the rows;
\* a column holding a non-numeric cell is read as dtype object
Table(cols, nonnumeric, rows) ==
    [columns |-> cols,
     dtypes |-> [c \in Range(cols) |->
                   IF c \in nonnumeric THEN "object" ELSE DefaultDtypes[c]],
     rows |-> [i \in 1..Len(rows) |-> [c \in Range(cols) |-> rows[i][c]]]]

Drop(cols, missing) == SelectSeq(cols, LAMBDA c : c \notin missing)

ColumnOrders ==
    { required_columns,
      Reverse(required_columns),
      <<"CTR", "Fecha", "eCPM", "Revenue", "Fuente", "Fill_Rate", "Page_RPM",
        "Impresiones">> }

MissingSets ==
    {S \in SUBSET Range(required_columns) : Cardinality(S) <= MaxMissing}

NonNumericSets ==
    {S \in SUBSET Range(numeric_columns) : Cardinality(S) <= MaxNonNumeric}

\* a file with the header line and no row: every column is read as object
HeaderOnly ==
    [columns |-> required_columns,
     dtypes |-> [c \in Range(required_columns) |-> "object"],
     rows |-> <<>>]

UploadedTables ==
    {Table(Drop(o, miss), nn, rows) :
        o \in ColumnOrders, miss \in MissingSets, nn \in NonNumericSets,
        rows \in {FixedRows, BadDateRows}}
    \cup {Table(required_columns, {}, rows) : rows \in SeqsUpTo(Catalog, MaxRows)}
    \cup {HeaderOnly}

EmptyTable == [columns |-> <<>>, dtypes |-> <<>>, rows |-> <<>>]

-----------------------------------------------------------------------------
(* generate_sample_data *)

SampleSources == SourceOrder

SampleDates == [i \in 1..SampleDays |-> <<2024, 1, i>>]

\* one draw of the random values of a row: revenue >= 0 in cents,
\* impressions >= 1000, fill rate in [75, 95], CTR in [0.1, 2.5]; the first
\* draw has an RPM of 2.675, halfway between 2.67 and 2.68
SampleDraws ==
    { [Revenue |->   5350, Impresiones |->    2000, Fill_Rate |-> 75000, CTR |-> 100],
      [Revenue |->    250, Impresiones |->    1000, Fill_Rate |-> 95000, CTR |-> 2500] }

\* the integers a float rounding of num/den to the nearest integer can give:
\* the nearest one, and both neighbours when num/den is exactly halfway (the
\* double that stands for it may lie below or above the tie)
RoundNearest(num, den) ==
    LET q == num \div den
        r == num % den
    IN  IF 2 * r < den THEN {q}
        ELSE IF 2 * r > den THEN {q + 1}
        ELSE {q, q + 1}

\* round(x, 2) of the fraction num/den of thousandths: the possible results,
\* in thousandths
Round2Milli(num, den) == {10 * q : q \in RoundNearest(num, 10 * den)}

\* the rows one draw can give: page_rpm and ecpm are the same expression,
\* so they round alike
SampleRow(date, source, draw) ==
    { Row(date, source, draw.Revenue, draw.Impresiones, rpm,
          draw.Fill_Rate, rpm, draw.CTR) :
      rpm \in IF draw.Impresiones > 0
              THEN Round2Milli(draw.Revenue * 1000, draw.Impresiones)
              ELSE {0} }

\* the row sequences of the first k (date, source) pairs, dates outermost
RECURSIVE SampleRowSeqs(_)
SampleRowSeqs(k) ==
    IF k = 0 THEN {<<>>}
    ELSE LET n == Len(SampleSources)
             date == SampleDates[((k - 1) \div n) + 1]
             source == SampleSources[((k - 1) % n) + 1]
         IN  { Append(rows, r) :
                 rows \in SampleRowSeqs(k - 1),
                 r \in UNION {SampleRow(date, source, draw) : draw \in SampleDraws} }

\* every table the generator can return: one row per date and source
generate_sample_data ==
    { Table(required_columns, {}, rows) :
        rows \in SampleRowSeqs(SampleDays * Len(SampleSources)) }

-----------------------------------------------------------------------------
(* Filters *)

\* sorted(df['Fuente'].unique()); also the key order of groupby('Fuente')
SortedSources(rows) ==
    SelectSeq(SourceOrder, LAMBDA s : \E i \in 1..Len(rows) : rows[i]["Fuente"] = s)

all_sources(t) == SortedSources(t.rows)

MinDate(t) ==
    CHOOSE d \in Range(Column(t.rows, "Fecha")) :
        \A e \in Range(Column(t.rows, "Fecha")) : dt_date(d) <= dt_date(e)

MaxDate(t) ==
    CHOOSE d \in Range(Column(t.rows, "Fecha")) :
        \A e \in Range(Column(t.rows, "Fecha")) : dt_date(d) >= dt_date(e)

\* what st.date_input can return: one date while the user is still picking,
\* else start <= end, both within [min_value, max_value]
DateRanges(t) ==
    LET days == dt_date(MinDate(t))..dt_date(MaxDate(t))
    IN  {<<a>> : a \in days}
        \cup {r \in days \X days : r[1] <= r[2]}

\* a filter whose end date is exclusive
ApplyFilterExclusiveEnd(t, range, sources) ==
    [t EXCEPT !.rows =
        IF Len(range) = 2
        THEN SelectSeq(t.rows, LAMBDA r :
                 /\ dt_date(r["Fecha"]) >= range[1]
                 /\ dt_date(r["Fecha"]) < range[2]
                 /\ r["Fuente"] \in sources)
        ELSE SelectSeq(t.rows, LAMBDA r : r["Fuente"] \in sources)]

\* the boolean-mask selection of lines 215-222
ApplyFilter(t, range, sources) ==
    [t EXCEPT !.rows =
        IF Len(range) = 2
        THEN SelectSeq(t.rows, LAMBDA r :
                 /\ dt_date(r["Fecha"]) >= range[1]
                 /\ dt_date(r["Fecha"]) <= range[2]
                 /\ r["Fuente"] \in sources)
        ELSE SelectSeq(t.rows, LAMBDA r : r["Fuente"] \in sources)]

-----------------------------------------------------------------------------
(* Aggregation *)

Group(rows, source) == SelectSeq(rows, LAMBDA r : r["Fuente"] = source)

\* 'sum' and 'mean' of a column of thousandths, as exact fractions
AggSum(rows, col) == [num |-> SumSeq(Column(rows, col)), den |-> 1]

AggMean(rows, col) == [num |-> SumSeq(Column(rows, col)), den |-> Len(rows)]

\* .round(2) of a fraction of thousandths: the possible results, in hundredths
Round2(x) == RoundNearest(x.num, 10 * x.den)

\* the sequences that take their i-th element from the i-th set
RECURSIVE ProductSeqs(_)
ProductSeqs(sets) ==
    IF sets = <<>> THEN {<<>>}
    ELSE {<<h>> \o t : h \in Head(sets), t \in ProductSeqs(Tail(sets))}

\* .round(2) of a count: unchanged
Round2Count(x) == x.num

\* lines 131-135, one group: the rows of source_metrics it can give
SourceMetricsRow(g, key) ==
    { [source |-> key, Fill_Rate |-> f, Revenue |-> r, eCPM |-> e] :
        f \in Round2(AggMean(g, "Fill_Rate")),
        r \in Round2(AggSum(g, "Revenue")),
        e \in Round2(AggMean(g, "eCPM")) }

\* lines 131-135: groupby('Fuente').agg({...}).round(2), keys sorted; the
\* tables it can give
SourceMetrics(rows) ==
    LET keys == SortedSources(rows)
    IN  ProductSeqs([k \in 1..Len(keys) |->
                        SourceMetricsRow(Group(rows, keys[k]), keys[k])])

\* an evaluator whose second rule is an elif of the first
AlertsOfElif(m) ==
    IF m.Fill_Rate < FillRateThreshold * 100
    THEN <<[type |-> "danger", source |-> m.source, value |-> m.Fill_Rate]>>
    ELSE IF m.eCPM < ECpmThreshold * 100
    THEN <<[type |-> "warning", source |-> m.source, value |-> m.eCPM]>>
    ELSE <<>>

\* lines 138-142: the alerts of one row of source_metrics, danger first;
\* metric values are hundredths, so 80 is 8000 and 1.0 is 100
AlertsOf(m) ==
    (IF m.Fill_Rate < FillRateThreshold * 100
     THEN <<[type |-> "danger", source |-> m.source, value |-> m.Fill_Rate]>>
     ELSE <<>>)
    \o
    (IF m.eCPM < ECpmThreshold * 100
     THEN <<[type |-> "warning", source |-> m.source, value |-> m.eCPM]>>
     ELSE <<>>)

\* lines 137-142: the loop over source_metrics.iterrows()
RECURSIVE CollectAlerts(_)
CollectAlerts(sm) ==
    IF sm = <<>> THEN <<>> ELSE AlertsOf(Head(sm)) \o CollectAlerts(Tail(sm))

\* a renderer with no all-clear message
RenderAlertsSilent(al) ==
    [i \in 1..Len(al) |->
        [kind |-> IF al[i].type = "danger" THEN "alert-danger" ELSE "alert-warning",
         text |-> al[i].source]]

\* lines 144-150: what show_alerts renders
RenderAlerts(al) ==
    IF al = <<>>
    THEN <<[kind |-> "alert-success", text |-> "Todas las fuentes funcionan correctamente"]>>
    ELSE [i \in 1..Len(al) |->
            [kind |-> IF al[i].type = "danger" THEN "alert-danger" ELSE "alert-warning",
             text |-> al[i].source]]

\* lines 237-240
total_revenue(rows) == SumSeq(Column(rows, "Revenue"))

total_impressions(rows) == SumSeq(Column(rows, "Impresiones"))

\* the headline RPM taken as the mean of the rows' Page_RPM (thousandths
\* over 1000 rows' worth, to give euros)
avg_page_rpm_row_mean(rows) ==
    [num |-> SumSeq(Column(rows, "Page_RPM")), den |-> 1000 * Len(rows)]

\* (total_revenue / total_impressions) * 1000 if total_impressions > 0 else 0,
\* as an exact fraction of whole euros: total_revenue is held in thousandths,
\* so the factor 1000 is the one that turns thousandths per impression into
\* euros per thousand impressions
avg_page_rpm(rows) ==
    IF total_impressions(rows) > 0
    THEN [num |-> total_revenue(rows), den |-> total_impressions(rows)]
    ELSE [num |-> 0, den |-> 1]

MainMetrics(rows) ==
    [total_revenue |-> total_revenue(rows),
     total_impressions |-> total_impressions(rows),
     avg_page_rpm |-> avg_page_rpm(rows),
     avg_fill_rate |-> AggMean(rows, "Fill_Rate"),
     avg_ecpm |-> AggMean(rows, "eCPM")]

\* lines 355-365, one group: the rows of detailed_metrics it can give
DetailedMetricsRow(g, key) ==
    { [source |-> key,
       Revenue_Total |-> rt,
       Revenue_Promedio |-> rp,
       Impresiones_Total |-> Round2Count(AggSum(g, "Impresiones")),
       Page_RPM |-> pr,
       Fill_Rate |-> fr,
       eCPM |-> ec,
       CTR |-> ct] :
        rt \in Round2(AggSum(g, "Revenue")),
        rp \in Round2(AggMean(g, "Revenue")),
        pr \in Round2(AggMean(g, "Page_RPM")),
        fr \in Round2(AggMean(g, "Fill_Rate")),
        ec \in Round2(AggMean(g, "eCPM")),
        ct \in Round2(AggMean(g, "CTR")) }

\* lines 355-365: the detailed table, one row per groupby key, rounded to 2;
\* the tables it can give
DetailedMetrics(rows) ==
    LET keys == SortedSources(rows)
    IN  ProductSeqs([k \in 1..Len(keys) |->
                        DetailedMetricsRow(Group(rows, keys[k]), keys[k])])

\* the same aggregate of the same rows rounds the same way every time it is
\* computed in a run
SameRounding(dm, sm) ==
    \A k \in 1..Len(dm) :
        /\ dm[k].Revenue_Total = sm[k].Revenue
        /\ dm[k].Fill_Rate = sm[k].Fill_Rate
        /\ dm[k].eCPM = sm[k].eCPM

\* str.contains(tech) on the Fuente column (lines 277, 296, 315)
Contains(source, tech) ==
    \/ tech = "Google" /\ source = "Google_AdEx"
    \/ tech = "Prebid" /\ source = "Prebid_Criteo"
    \/ tech = "TAM" /\ source = "TAM_Amazon"

TechRows(rows, tech) == SelectSeq(rows, LAMBDA r : Contains(r["Fuente"], tech))

-----------------------------------------------------------------------------
(* The script run *)

Element(kind, text) == [kind |-> kind, text |-> text]

NoFile == [present |-> FALSE, readable |-> FALSE, table |-> EmptyTable]

\* an upload pd.read_csv cannot parse (an empty or undecodable file)
UnreadableFile == [present |-> TRUE, readable |-> FALSE, table |-> EmptyTable]

NoValidation ==
    [called |-> FALSE, ok |-> FALSE, message |-> [text |-> "", cols |-> <<>>],
     before |-> EmptyTable, after |-> EmptyTable]

NoMetrics ==
    [total_revenue |-> 0, total_impressions |-> 0,
     avg_page_rpm |-> [num |-> 0, den |-> 1],
     avg_fill_rate |-> [num |-> 0, den |-> 1],
     avg_ecpm |-> [num |-> 0, den |-> 1]]

\* a guard that never stops the run
EmptyNeverStops(t) == FALSE

\* filtered_df.empty (line 224)
Empty(t) == t.rows = <<>>

Init ==
    /\ pc = "start"
    /\ uploaded_file = NoFile
    /\ use_sample = FALSE
    /\ validation = NoValidation
    /\ df = EmptyTable
    /\ date_range = <<>>
    /\ selected_sources = {}
    /\ filtered_df = EmptyTable
    /\ source_metrics = <<>>
    /\ alerts = <<>>
    /\ metrics = NoMetrics
    /\ detailed_metrics = <<>>
    /\ page = <<>>

\* lines 173-180: a file is uploaded and validate_data rejects it
UploadRejected ==
    /\ pc = "start"
    /\ \E t \in UploadedTables, sample \in BOOLEAN :
          LET v == validate_data(t)
          IN  /\ ~v.ok
              /\ uploaded_file' = [present |-> TRUE, readable |-> TRUE, table |-> t]
              /\ use_sample' = sample
              /\ validation' = [called |-> TRUE, ok |-> v.ok, message |-> v.message,
                                before |-> t, after |-> v.after]
              /\ df' = v.after
              /\ page' = Append(page, Element("error", v.message.text))
    /\ pc' = "stopped"
    /\ UNCHANGED <<date_range, selected_sources, filtered_df, source_metrics,
                   alerts, metrics, detailed_metrics>>

\* lines 173-175 and 184-186: a file is uploaded and pd.read_csv raises; the
\* except branch reports it and stops, validate_data is never called and df
\* is never bound
UploadUnreadable ==
    /\ pc = "start"
    /\ \E sample \in BOOLEAN : use_sample' = sample
    /\ uploaded_file' = UnreadableFile
    /\ page' = Append(page, Element("error", "Error al cargar el archivo"))
    /\ pc' = "stopped"
    /\ UNCHANGED <<validation, df, date_range, selected_sources, filtered_df,
                   source_metrics, alerts, metrics, detailed_metrics>>

\* lines 173-183: a file is uploaded and validate_data accepts it
UploadAccepted ==
    /\ pc = "start"
    /\ \E t \in UploadedTables, sample \in BOOLEAN :
          LET v == validate_data(t)
          IN  /\ v.ok
              /\ uploaded_file' = [present |-> TRUE, readable |-> TRUE, table |-> t]
              /\ use_sample' = sample
              /\ validation' = [called |-> TRUE, ok |-> v.ok, message |-> v.message,
                                before |-> t, after |-> v.after]
              /\ df' = AssignFecha(v.after)
              /\ page' = Append(page, Element("sidebar-success", "Datos cargados correctamente"))
    /\ pc' = "filters"
    /\ UNCHANGED <<date_range, selected_sources, filtered_df, source_metrics,
                   alerts, metrics, detailed_metrics>>

\* lines 187-190: no file, the checkbox is on
UseSample ==
    /\ pc = "start"
    /\ \E t \in generate_sample_data :
          df' = AssignFecha(t)
    /\ uploaded_file' = NoFile
    /\ use_sample' = TRUE
    /\ page' = Append(page, Element("sidebar-info", "Usando datos de ejemplo"))
    /\ pc' = "filters"
    /\ UNCHANGED <<validation, date_range, selected_sources, filtered_df,
                   source_metrics, alerts, metrics, detailed_metrics>>

\* lines 191-193: no file, the checkbox is off
NoData ==
    /\ pc = "start"
    /\ uploaded_file' = NoFile
    /\ use_sample' = FALSE
    /\ page' = Append(page, Element("warning", "Por favor sube un archivo CSV o activa los datos de ejemplo"))
    /\ pc' = "stopped"
    /\ UNCHANGED <<validation, df, date_range, selected_sources, filtered_df,
                   source_metrics, alerts, metrics, detailed_metrics>>

\* lines 195-226, the filter leaves no row: warning and st.stop()
FilterEmpty ==
    /\ pc = "filters"
    /\ \E range \in DateRanges(df), sources \in SUBSET Range(all_sources(df)) :
          /\ Empty(ApplyFilter(df, range, sources))
          /\ date_range' = range
          /\ selected_sources' = sources
          /\ filtered_df' = ApplyFilter(df, range, sources)
    /\ page' = Append(page, Element("warning", "No hay datos para los filtros seleccionados"))
    /\ pc' = "stopped"
    /\ UNCHANGED <<uploaded_file, use_sample, validation, df, source_metrics,
                   alerts, metrics, detailed_metrics>>

\* lines 195-226, the filter leaves rows
FilterPass ==
    /\ pc = "filters"
    /\ \E range \in DateRanges(df), sources \in SUBSET Range(all_sources(df)) :
          /\ ~Empty(ApplyFilter(df, range, sources))
          /\ date_range' = range
          /\ selected_sources' = sources
          /\ filtered_df' = ApplyFilter(df, range, sources)
    /\ pc' = "alerts"
    /\ UNCHANGED <<uploaded_file, use_sample, validation, df, source_metrics,
                   alerts, metrics, detailed_metrics, page>>

\* lines 228-230 with show_alerts (127-150)
ShowAlerts ==
    /\ pc = "alerts"
    /\ \E sm \in SourceMetrics(filtered_df.rows) :
          /\ source_metrics' = sm
          /\ alerts' = CollectAlerts(sm)
          /\ page' = page \o <<Element("header", "Sistema de Alertas")>> \o
                     RenderAlerts(CollectAlerts(sm))
    /\ pc' = "metrics"
    /\ UNCHANGED <<uploaded_file, use_sample, validation, df, date_range,
                   selected_sources, filtered_df, metrics, detailed_metrics>>

\* lines 232-268: the four headline metrics
ShowMetrics ==
    /\ pc = "metrics"
    /\ metrics' = MainMetrics(filtered_df.rows)
    /\ page' = page \o <<Element("header", "Metricas Principales"),
                         Element("metric", "Revenue Total"),
                         Element("metric", "Page RPM"),
                         Element("metric", "Fill Rate"),
                         Element("metric", "eCPM Promedio")>>
    /\ pc' = "tabs"
    /\ UNCHANGED <<uploaded_file, use_sample, validation, df, date_range,
                   selected_sources, filtered_df, source_metrics, alerts,
                   detailed_metrics>>

\* the table a technology tab shows, when its rows are not empty
TabTable(rows, tech, title) ==
    IF TechRows(rows, tech) = <<>> THEN <<>> ELSE <<Element("dataframe", title)>>

\* lines 270-331, no TAM row in the filtered data: the third tab stays empty
ShowTabs ==
    /\ pc = "tabs"
    /\ TechRows(filtered_df.rows, "TAM") = <<>>
    /\ page' = page \o <<Element("header", "Analisis por Tecnologia")>>
                    \o TabTable(filtered_df.rows, "Google", "Metricas Google")
                    \o TabTable(filtered_df.rows, "Prebid", "Metricas Prebid SSPs")
    /\ pc' = "detail"
    /\ UNCHANGED <<uploaded_file, use_sample, validation, df, date_range,
                   selected_sources, filtered_df, source_metrics, alerts, metrics,
                   detailed_metrics>>

\* lines 270-330 with TAM rows: line 330 calls fig_tam.update_xaxis, a method
\* plotly figures do not have (theirs is update_xaxes), so the run ends there
\* with an AttributeError
ShowTabsRaises ==
    /\ pc = "tabs"
    /\ TechRows(filtered_df.rows, "TAM") # <<>>
    /\ page' = page \o <<Element("header", "Analisis por Tecnologia")>>
                    \o TabTable(filtered_df.rows, "Google", "Metricas Google")
                    \o TabTable(filtered_df.rows, "Prebid", "Metricas Prebid SSPs")
                    \o TabTable(filtered_df.rows, "TAM", "Metricas Amazon TAM Partners")
                    \o <<Element("exception", "AttributeError")>>
    /\ pc' = "crashed"
    /\ UNCHANGED <<uploaded_file, use_sample, validation, df, date_range,
                   selected_sources, filtered_df, source_metrics, alerts, metrics,
                   detailed_metrics>>

\* lines 333-367: the comparison charts and the detailed per-source table
ShowDetail ==
    /\ pc = "detail"
    /\ \E dm \in DetailedMetrics(filtered_df.rows) :
          /\ SameRounding(dm, source_metrics)
          /\ detailed_metrics' = dm
    /\ page' = page \o <<Element("header", "Analisis Comparativo General"),
                         Element("header", "Datos Detallados por Fuente"),
                         Element("dataframe", "detailed_metrics")>>
    /\ pc' = "export"
    /\ UNCHANGED <<uploaded_file, use_sample, validation, df, date_range,
                   selected_sources, filtered_df, source_metrics, alerts, metrics>>

\* lines 369-381: the download button and the footer
Export ==
    /\ pc = "export"
    /\ page' = page \o <<Element("header", "Exportar Datos"),
                         Element("download", "Descargar datos filtrados (CSV)"),
                         Element("footer", "Dashboard Programatico El Espanol")>>
    /\ pc' = "done"
    /\ UNCHANGED <<uploaded_file, use_sample, validation, df, date_range,
                   selected_sources, filtered_df, source_metrics, alerts, metrics,
                   detailed_metrics>>

\* a widget changes and Streamlit runs the script again from the top; nothing
\* the script computed survives the run
Rerun ==
    /\ pc \in {"stopped", "crashed", "done"}
    /\ pc' = "start"
    /\ uploaded_file' = NoFile
    /\ use_sample' = FALSE
    /\ validation' = NoValidation
    /\ df' = EmptyTable
    /\ date_range' = <<>>
    /\ selected_sources' = {}
    /\ filtered_df' = EmptyTable
    /\ source_metrics' = <<>>
    /\ alerts' = <<>>
    /\ metrics' = NoMetrics
    /\ detailed_metrics' = <<>>
    /\ page' = <<>>

Next ==
    \/ UploadRejected
    \/ UploadUnreadable
    \/ UploadAccepted
    \/ UseSample
    \/ NoData
    \/ FilterEmpty
    \/ FilterPass
    \/ ShowAlerts
    \/ ShowMetrics
    \/ ShowTabs
    \/ ShowTabsRaises
    \/ ShowDetail
    \/ Export
    \/ Rerun

Spec == Init /\ [][Next]_vars

-----------------------------------------------------------------------------
(* Properties *)

\* show_alerts has run in this script run
AlertsEvaluated == pc \in {"metrics", "tabs", "detail", "export", "done", "crashed"}

\* the filter of lines 215-222 has run in this script run
FilterApplied == date_range # <<>>

CountKind(kinds) == Cardinality({i \in 1..Len(page) : page[i].kind \in kinds})

Absent(t) == {c \in Range(required_columns) : c \notin Range(t.columns)}

CanonicalIndex(col) == CHOOSE i \in 1..Len(required_columns) : required_columns[i] = col

ScanIndex(col) == CHOOSE i \in 1..Len(numeric_columns) : numeric_columns[i] = col

\* C1: validate_data leaves the table it is given as it was: same columns,
\* same dtypes, same cells, whether it accepts or rejects.
C1_ValidateKeepsInput ==
    validation.called => validation.after = validation.before

\* C2: a source gets a danger alert exactly when the exact mean of its
\* fill_rate is below 80 and a warning exactly when the exact mean of its
\* ecpm is below 1.0; rounding never decides an alert.
C2_AlertsOnExactMeans ==
    AlertsEvaluated =>
        \A s \in Range(SortedSources(filtered_df.rows)) :
            LET g == Group(filtered_df.rows, s)
            IN  /\ (\E i \in 1..Len(alerts) :
                        alerts[i].type = "danger" /\ alerts[i].source = s)
                   <=> SumSeq(Column(g, "Fill_Rate")) < FillRateThreshold * 1000 * Len(g)
                /\ (\E i \in 1..Len(alerts) :
                        alerts[i].type = "warning" /\ alerts[i].source = s)
                   <=> SumSeq(Column(g, "eCPM")) < ECpmThreshold * 1000 * Len(g)

\* C3: a table lacking required columns is rejected with a message that
\* lists exactly the missing columns, each once, in the canonical order,
\* whatever the column order of the file; a table with all eight columns,
\* parseable dates and numeric metric columns is accepted.
C3_MissingColumnsListed ==
    validation.called =>
        LET t == validation.before
            cols == validation.message.cols
        IN  /\ Absent(t) # {} =>
                /\ ~validation.ok
                /\ validation.message.text = "Faltan las siguientes columnas"
                /\ Range(cols) = Absent(t)
                /\ \A i, j \in 1..Len(cols) :
                      i < j => CanonicalIndex(cols[i]) < CanonicalIndex(cols[j])
            /\ ( /\ Absent(t) = {}
                 /\ \A i \in 1..Len(t.rows) : Parseable(t.rows[i]["Fecha"])
                 /\ \A c \in Range(numeric_columns) : t.dtypes[c] \in {"int64", "float64"} )
               => validation.ok

\* C3 witness: a rejected file whose columns are not in canonical order and
\* that lacks two columns.
C3_Witness ==
    /\ validation.called
    /\ Cardinality(Absent(validation.before)) = 2
    /\ validation.before.columns[1] = "CTR"
    /\ Len(validation.message.cols) = 2

\* row i of df passes the two-bound filter
Wanted(i) ==
    /\ dt_date(df.rows[i]["Fecha"]) >= date_range[1]
    /\ dt_date(df.rows[i]["Fecha"]) <= date_range[2]
    /\ df.rows[i]["Fuente"] \in selected_sources

\* the index in df of the k-th row that passes
KthWanted(k) ==
    CHOOSE i \in 1..Len(df.rows) :
        Wanted(i) /\ Cardinality({j \in 1..(i - 1) : Wanted(j)}) = k - 1

\* C4: with a two-bound range the filter keeps exactly the rows whose date
\* is in [d1, d2] and whose source is selected, in df's order and with df's
\* multiplicity; no source selected gives no row; the full range with every
\* source gives df back.
C4_FilterExact ==
    (FilterApplied /\ Len(date_range) = 2) =>
        /\ Len(filtered_df.rows) = Cardinality({i \in 1..Len(df.rows) : Wanted(i)})
        /\ \A k \in 1..Len(filtered_df.rows) : filtered_df.rows[k] = df.rows[KthWanted(k)]
        /\ filtered_df.columns = df.columns
        /\ selected_sources = {} => filtered_df.rows = <<>>
        /\ ( /\ date_range = <<dt_date(MinDate(df)), dt_date(MaxDate(df))>>
             /\ selected_sources = Range(all_sources(df)) )
           => filtered_df = df

\* C4 witness: a filter that drops a row and keeps a row df holds twice.
C4_Witness ==
    /\ FilterApplied
    /\ Len(date_range) = 2
    /\ Len(df.rows) = 3
    /\ Len(filtered_df.rows) = 2
    /\ filtered_df.rows[1] = filtered_df.rows[2]
    /\ df.rows[2] # df.rows[1]

\* C5: every source has exactly one row in the detailed table and the
\* 'Revenue Total' column adds up to total_revenue.
C5_RevenueConservation ==
    pc \in {"export", "done"} =>
        /\ \A s \in Range(SortedSources(filtered_df.rows)) :
              Cardinality({k \in 1..Len(detailed_metrics) :
                              detailed_metrics[k].source = s}) = 1
        /\ 10 * SumSeq([k \in 1..Len(detailed_metrics) |->
                           detailed_metrics[k].Revenue_Total])
           = metrics.total_revenue

LaterStageKinds ==
    {"header", "alert-success", "alert-danger", "alert-warning", "metric",
     "dataframe", "download", "footer", "exception"}

\* C6: once validate_data has rejected the upload, or the filter has left
\* no row, the run is stopped there: no later stage has rendered or computed
\* anything, and a rejected upload is not replaced by another dataset.
C6_FailuresAreTerminal ==
    /\ (validation.called /\ ~validation.ok) =>
          /\ pc = "stopped"
          /\ df = validation.after
          /\ ~FilterApplied
          /\ page = <<Element("error", validation.message.text)>>
    /\ (FilterApplied /\ filtered_df.rows = <<>>) =>
          /\ pc = "stopped"
          /\ page[Len(page)] = Element("warning", "No hay datos para los filtros seleccionados")
    /\ ((validation.called /\ ~validation.ok) \/ (FilterApplied /\ filtered_df.rows = <<>>)) =>
          /\ CountKind(LaterStageKinds) = 0
          /\ source_metrics = <<>>
          /\ alerts = <<>>
          /\ metrics = NoMetrics
          /\ detailed_metrics = <<>>

\* C6 witness: a filter that left no row of an accepted upload.
C6_Witness ==
    /\ validation.called
    /\ validation.ok
    /\ FilterApplied
    /\ filtered_df.rows = <<>>
    /\ selected_sources # {}

\* position of an alert's source in the aggregation mapping
MappingIndex(source) ==
    CHOOSE k \in 1..Len(source_metrics) : source_metrics[k].source = source

\* the (source, rule) pairs whose threshold the mapping's value violates
Violations ==
    {<<k, "danger">> : k \in {x \in 1..Len(source_metrics) :
                                source_metrics[x].Fill_Rate < FillRateThreshold * 100}}
    \cup
    {<<k, "warning">> : k \in {x \in 1..Len(source_metrics) :
                                 source_metrics[x].eCPM < ECpmThreshold * 100}}

AlertElements ==
    SelectSeq(page, LAMBDA e : e.kind \in {"alert-danger", "alert-warning"})

\* C7: the alerts follow the aggregation mapping: one alert for every
\* (source, rule) pair the mapping's value violates and no other, an earlier
\* source's alerts before a later source's, danger before warning within a
\* source, and they are rendered in that order.
C7_AlertOrder ==
    AlertsEvaluated =>
        /\ \A i, j \in 1..Len(source_metrics) :
              i # j => source_metrics[i].source # source_metrics[j].source
        /\ {source_metrics[k].source : k \in 1..Len(source_metrics)}
           = {filtered_df.rows[i]["Fuente"] : i \in 1..Len(filtered_df.rows)}
        /\ Len(alerts) = Cardinality(Violations)
        /\ \A i \in 1..Len(alerts) :
              <<MappingIndex(alerts[i].source), alerts[i].type>> \in Violations
        /\ \A i, j \in 1..Len(alerts) :
              i < j =>
                 \/ MappingIndex(alerts[i].source) < MappingIndex(alerts[j].source)
                 \/ /\ alerts[i].source = alerts[j].source
                    /\ alerts[i].type = "danger"
                    /\ alerts[j].type = "warning"
        /\ Len(AlertElements) = Len(alerts)
        /\ \A i \in 1..Len(alerts) :
              /\ AlertElements[i].text = alerts[i].source
              /\ AlertElements[i].kind = "alert-danger" <=> alerts[i].type = "danger"

\* C7 witness: the two-source scenario, the second source's row first in the
\* data: danger and warning for the first source, then a warning for the
\* second.
C7_Witness ==
    /\ AlertsEvaluated
    /\ Len(filtered_df.rows) = 2
    /\ filtered_df.rows[1]["Fuente"] = "Prebid_Criteo"
    /\ Len(alerts) = 3
    /\ alerts[1] = [type |-> "danger", source |-> "Google_AdEx", value |-> 7000]
    /\ alerts[2] = [type |-> "warning", source |-> "Google_AdEx", value |-> 50]
    /\ alerts[3] = [type |-> "warning", source |-> "Prebid_Criteo", value |-> 25]

\* C8: a run that evaluated the alerts shows either the all-clear message
\* once and no alert, or its alerts and no all-clear; a run that did not
\* evaluate them shows neither.
C8_AllClearIffNoAlerts ==
    /\ AlertsEvaluated =>
          \/ /\ alerts = <<>>
             /\ CountKind({"alert-success"}) = 1
             /\ CountKind({"alert-danger", "alert-warning"}) = 0
          \/ /\ alerts # <<>>
             /\ CountKind({"alert-success"}) = 0
             /\ CountKind({"alert-danger", "alert-warning"}) = Len(alerts)
    /\ ~AlertsEvaluated =>
          /\ CountKind({"alert-success"}) = 0
          /\ CountKind({"alert-danger", "alert-warning"}) = 0

\* C8 witness: a run that evaluated the alerts and found none.
C8_Witness ==
    /\ pc = "done"
    /\ alerts = <<>>
    /\ CountKind({"alert-success"}) = 1

\* the numeric columns of t whose dtype is not numeric
Offending(t) ==
    {c \in Range(numeric_columns) : t.dtypes[c] \notin {"int64", "float64"}}

\* C9: a table with all eight columns and parseable dates but a non-numeric
\* metric column is rejected with a message naming one column, the first
\* offending one in the scan order of numeric_columns.
C9_FirstOffendingColumn ==
    validation.called =>
        LET t == validation.before
            cols == validation.message.cols
        IN  ( /\ Absent(t) = {}
              /\ \A i \in 1..Len(t.rows) : Parseable(t.rows[i]["Fecha"])
              /\ Offending(t) # {} )
            => /\ ~validation.ok
               /\ validation.message.text = "La columna debe ser numerica"
               /\ Len(cols) = 1
               /\ cols[1] \in Offending(t)
               /\ \A c \in Offending(t) : ScanIndex(cols[1]) <= ScanIndex(c)

\* C9 witness: two offending columns in a file whose column order is not the
\* scan order; only the first in scan order is named.
C9_Witness ==
    /\ validation.called
    /\ Absent(validation.before) = {}
    /\ validation.before.columns[1] = "CTR"
    /\ Offending(validation.before) = {"Revenue", "CTR"}
    /\ validation.message.cols = <<"Revenue">>

MetricsComputed == pc \in {"tabs", "detail", "export", "done", "crashed"}

\* C10: avg_page_rpm is total revenue over total impressions times 1000,
\* taken over the whole filtered dataset, and 0 when there is no impression
\* (rev is in thousandths of a euro and rpm in euros, so rpm = rev / imp).
C10_OverallPageRpm ==
    MetricsComputed =>
        LET rev == SumSeq([i \in 1..Len(filtered_df.rows) |-> filtered_df.rows[i]["Revenue"]])
            imp == SumSeq([i \in 1..Len(filtered_df.rows) |-> filtered_df.rows[i]["Impresiones"]])
            rpm == metrics.avg_page_rpm
        IN  /\ rpm.den > 0
            /\ imp > 0 => rpm.num * imp = rev * rpm.den
            /\ imp = 0 => rpm.num = 0

\* C10 witness: a run whose overall figure differs from the per-source
\* Page RPM of its only source.
C10_Witness ==
    /\ pc = "done"
    /\ Len(detailed_metrics) = 1
    /\ metrics.total_impressions > 0
    /\ detailed_metrics[1].Page_RPM * metrics.avg_page_rpm.den
       # 100 * metrics.avg_page_rpm.num

====
